---- MODULE Spec2Model ----
(***************************************************************************)
(* Flowchart-Maker (src/app.py): the per-variant generation / cleaning /   *)
(* validation / render pipeline of run_crew, the batch classification of   *)
(* index, the download route and validate_mermaid_code.                    *)
(*                                                                         *)
(* Text is modelled as a sequence of one-character strings, so that the    *)
(* substring tests and regular expressions of the source are computed and  *)
(* not assumed.                                                            *)
(***************************************************************************)
EXTENDS Integers, Sequences, FiniteSets, TLC

VARIABLES
    pc,             \* position of the running handler
    variant,        \* run_crew: id of the variant the loop is at
    files,          \* output directory: json, svg and png files by name
    result_files,   \* output directory: flowchart_result_variant{i}.json
    result_json,    \* run_crew: result_json['variants']
    mermaid_code,   \* run_crew: local mermaid_code
    variant_result, \* run_crew: local variant_result
    log,            \* history: per variant, the stages run and how each ended
    page,           \* index: the result and error handed to the template
    resp,           \* download: the last response
    vcode,          \* validate_mermaid_code: argument of the call
    vret,           \* validate_mermaid_code: returned value
    req,            \* index: the request being answered
    cfile,          \* clean_json_file: the file at file_path
    ccalls          \* history: the calls of clean_json_file on cfile

pipeline_vars == <<variant, files, result_files, result_json, mermaid_code,
                   variant_result, log, page, resp, req>>

vars == <<pc, variant, files, result_files, result_json, mermaid_code,
          variant_result, log, page, resp, vcode, vret, req, cfile, ccalls>>

----------------------------------------------------------------------------
(* Bounds *)

\* longest token sequence from which a validate input is assembled
MaxTokens == 3
MaxCleanTokens == 3
MaxCleanCalls == 2

----------------------------------------------------------------------------
(* Text primitives (Python str operations used by the source) *)

Range(s) == {s[i] : i \in 1..Len(s)}

UpperCase == <<"A", "B", "C", "D", "E", "F", "G", "H", "I", "J", "K", "L", "M",
               "N", "O", "P", "Q", "R", "S", "T", "U", "V", "W", "X", "Y", "Z">>

LowerCase == <<"a", "b", "c", "d", "e", "f", "g", "h", "i", "j", "k", "l", "m",
               "n", "o", "p", "q", "r", "s", "t", "u", "v", "w", "x", "y", "z">>

Digits == {"0", "1", "2", "3", "4", "5", "6", "7", "8", "9"}

\* the character class [A-Za-z0-9]
Alnum == Range(UpperCase) \cup Range(LowerCase) \cup Digits

\* characters removed by str.strip()
Whitespace == {" ", "\n", "\t"}

LowerChar(c) ==
    IF \E i \in 1..26 : UpperCase[i] = c
    THEN LowerCase[CHOOSE i \in 1..26 : UpperCase[i] = c]
    ELSE c

\* str.lower()
lower(s) == [i \in 1..Len(s) |-> LowerChar(s[i])]

\* t occurs in s starting at index i
OccursAt(s, t, i) ==
    /\ i >= 1
    /\ i + Len(t) - 1 <= Len(s)
    /\ \A k \in 1..Len(t) : s[i + k - 1] = t[k]

\* Python "t in s"
Contains(s, t) == \E i \in 1..(Len(s) - Len(t) + 1) : OccursAt(s, t, i)

\* s[i..j] (1-based, inclusive), empty when j < i
Slice(s, i, j) == [k \in 1..(j - i + 1) |-> s[i + k - 1]]

----------------------------------------------------------------------------
(* Python values handed to validate_mermaid_code *)

PyStr(s) == [kind |-> "str", val |-> s]
PyNone == [kind |-> "none", val |-> <<>>]
PyInt(d) == [kind |-> "int", val |-> d]
PyList(s) == [kind |-> "list", val |-> s]

\* Python truthiness ("not code" is its negation)
Truthy(v) ==
    CASE v.kind = "none" -> FALSE
      [] v.kind = "int" -> v.val # <<"0">>
      [] OTHER -> v.val # <<>>

S_graph == <<"g", "r", "a", "p", "h">>
S_arrow == <<"-", "-", ">">>

\* re.search(r'[A-Za-z0-9]+\[.*?\]', code): "." does not match a newline
NodePattern(s) ==
    \E j \in 2..Len(s) :
        /\ s[j] = "["
        /\ s[j - 1] \in Alnum
        /\ \E k \in (j + 1)..Len(s) :
              /\ s[k] = "]"
              /\ \A m \in (j + 1)..(k - 1) : s[m] # "\n"

\* validate_mermaid_code(code)
validate_mermaid_code(code) ==
    IF ~Truthy(code) \/ code.kind # "str" THEN FALSE
    ELSE IF ~Contains(lower(code.val), S_graph) \/ ~Contains(code.val, S_arrow) THEN FALSE
    ELSE IF ~NodePattern(code.val) THEN FALSE
    ELSE TRUE

----------------------------------------------------------------------------
(* clean_json_file and the json module *)

\* Python None as a return value
None == "<None>"

\* a file of the output directory: absent, or present with its content
NoFile == [exists |-> FALSE, data |-> <<>>]
FileOf(text) == [exists |-> TRUE, data |-> text]

RECURSIVE SkipWs(_, _)
\* index of the first non-blank character of s at or after i, Len(s)+1 if none
SkipWs(s, i) == IF i <= Len(s) /\ s[i] \in Whitespace THEN SkipWs(s, i + 1) ELSE i

RECURSIVE SkipWsBack(_, _)
\* index of the last non-blank character of s at or before i, 0 if none
SkipWsBack(s, i) == IF i >= 1 /\ s[i] \in Whitespace THEN SkipWsBack(s, i - 1) ELSE i

\* str.strip()
strip(s) == Slice(s, SkipWs(s, 1), SkipWsBack(s, Len(s)))

\* the backquote character (written by name: a backquote cannot be typed here)
BackQuote == "<backquote>"

S_fence_open == <<BackQuote, BackQuote, BackQuote, "j", "s", "o", "n", "\n">>
S_fence_close == <<"\n", BackQuote, BackQuote, BackQuote>>

\* ends of the group (.*?) of the fence pattern for an opening fence at p:
\* the closing newline-and-fence may not overlap the opening fence
FenceCloses(s, p) ==
    {q \in (p + Len(S_fence_open))..Len(s) : OccursAt(s, S_fence_close, q)}

\* positions at which re.search(fence pattern, s, re.DOTALL) can match
FenceOpens(s) ==
    {p \in 1..Len(s) : OccursAt(s, S_fence_open, p) /\ FenceCloses(s, p) # {}}

Min(S) == CHOOSE x \in S : \A y \in S : x <= y

\* json_match.group(1): leftmost match, shortest group
FenceGroup(s) ==
    LET p == Min(FenceOpens(s))
        q == Min(FenceCloses(s, p))
    IN Slice(s, p + Len(S_fence_open), q - 1)

JsonFail == [ok |-> FALSE, pairs |-> <<>>]

\* a JSON string literal starting at s[i]; escapes and raw control
\* characters are rejected (the payloads of this model contain no backslash)
JsonString(s, i) ==
    IF i > Len(s) \/ s[i] # "\""
    THEN [ok |-> FALSE, text |-> <<>>, next |-> i]
    ELSE LET ends == {j \in (i + 1)..Len(s) : s[j] = "\""} IN
         IF ends = {} THEN [ok |-> FALSE, text |-> <<>>, next |-> i]
         ELSE LET e == Min(ends) IN
              IF \E m \in (i + 1)..(e - 1) : s[m] \in {"\n", "\t", "\\"}
              THEN [ok |-> FALSE, text |-> <<>>, next |-> i]
              ELSE [ok |-> TRUE, text |-> Slice(s, i + 1, e - 1), next |-> e + 1]

RECURSIVE JsonMembers(_, _, _)
\* the members "key": "value" of an object, from the key at s[i] to the brace
JsonMembers(s, i, acc) ==
    LET k == JsonString(s, i) IN
    IF ~k.ok THEN JsonFail
    ELSE LET c == SkipWs(s, k.next) IN
         IF c > Len(s) \/ s[c] # ":" THEN JsonFail
         ELSE LET v == JsonString(s, SkipWs(s, c + 1)) IN
              IF ~v.ok THEN JsonFail
              ELSE LET d == SkipWs(s, v.next)
                       got == Append(acc, <<k.text, v.text>>)
                   IN IF d > Len(s) THEN JsonFail
                      ELSE IF s[d] = "}"
                           THEN IF SkipWs(s, d + 1) > Len(s)
                                THEN [ok |-> TRUE, pairs |-> got]
                                ELSE JsonFail
                      ELSE IF s[d] = ","
                           THEN JsonMembers(s, SkipWs(s, d + 1), got)
                      ELSE JsonFail

\* json.loads(s) for objects whose values are strings: ok is FALSE where
\* json.JSONDecodeError is raised
json_loads(s) ==
    LET a == SkipWs(s, 1) IN
    IF a > Len(s) \/ s[a] # "{" THEN JsonFail
    ELSE LET b == SkipWs(s, a + 1) IN
         IF b <= Len(s) /\ s[b] = "}"
         THEN IF SkipWs(s, b + 1) > Len(s) THEN [ok |-> TRUE, pairs |-> <<>>] ELSE JsonFail
         ELSE JsonMembers(s, b, <<>>)

\* dict.get(key, default) on the parsed object (a repeated key keeps the last)
DictGet(pairs, key, default) ==
    LET hits == {n \in 1..Len(pairs) : pairs[n][1] = key} IN
    IF hits = {} THEN default
    ELSE pairs[CHOOSE n \in hits : \A m \in hits : m <= n][2]

\* clean_json_file(file_path): the returned message (None on success) and
\* the file as the call leaves it (open, read and write are taken not to raise)
clean_json_file_WriteBeforeValidate(file_path, f) ==
    IF ~f.exists \/ Len(f.data) = 0
    THEN [ret |-> "JSON file " \o file_path \o " is missing or empty", file |-> f]
    ELSE LET content == strip(f.data) IN
         IF content = <<>>
         THEN [ret |-> "JSON file " \o file_path \o " is empty after stripping", file |-> f]
         ELSE LET cleaned_content ==
                      IF FenceOpens(content) # {}
                      THEN strip(FenceGroup(content))
                      ELSE strip(content)
              IN IF ~(/\ Len(cleaned_content) > 0
                      /\ cleaned_content[1] = "{"
                      /\ cleaned_content[Len(cleaned_content)] = "}")
                 THEN [ret |-> "Cleaned content of " \o file_path \o " does not resemble JSON",
                       file |-> f]
                 ELSE IF ~json_loads(cleaned_content).ok
                 THEN [ret |-> "Invalid JSON in " \o file_path \o " after cleaning: JSONDecodeError",
                       file |-> FileOf(cleaned_content)]
                 ELSE [ret |-> None, file |-> FileOf(cleaned_content)]

clean_json_file_AppendMode(file_path, f) ==
    IF ~f.exists \/ Len(f.data) = 0
    THEN [ret |-> "JSON file " \o file_path \o " is missing or empty", file |-> f]
    ELSE LET content == strip(f.data) IN
         IF content = <<>>
         THEN [ret |-> "JSON file " \o file_path \o " is empty after stripping", file |-> f]
         ELSE LET cleaned_content ==
                      IF FenceOpens(content) # {}
                      THEN strip(FenceGroup(content))
                      ELSE strip(content)
              IN IF ~(/\ Len(cleaned_content) > 0
                      /\ cleaned_content[1] = "{"
                      /\ cleaned_content[Len(cleaned_content)] = "}")
                 THEN [ret |-> "Cleaned content of " \o file_path \o " does not resemble JSON",
                       file |-> f]
                 ELSE IF ~json_loads(cleaned_content).ok
                 THEN [ret |-> "Invalid JSON in " \o file_path \o " after cleaning: JSONDecodeError",
                       file |-> f]
                 ELSE [ret |-> None, file |-> FileOf(f.data \o cleaned_content)]

clean_json_file(file_path, f) ==
    IF ~f.exists \/ Len(f.data) = 0
    THEN [ret |-> "JSON file " \o file_path \o " is missing or empty", file |-> f]
    ELSE LET content == strip(f.data) IN
         IF content = <<>>
         THEN [ret |-> "JSON file " \o file_path \o " is empty after stripping", file |-> f]
         ELSE LET cleaned_content ==
                      IF FenceOpens(content) # {}
                      THEN strip(FenceGroup(content))
                      ELSE strip(content)
              IN IF ~(/\ Len(cleaned_content) > 0
                      /\ cleaned_content[1] = "{"
                      /\ cleaned_content[Len(cleaned_content)] = "}")
                 THEN [ret |-> "Cleaned content of " \o file_path \o " does not resemble JSON",
                       file |-> f]
                 ELSE IF ~json_loads(cleaned_content).ok
                 THEN [ret |-> "Invalid JSON in " \o file_path \o " after cleaning: JSONDecodeError",
                       file |-> f]
                 ELSE [ret |-> None, file |-> FileOf(cleaned_content)]

----------------------------------------------------------------------------
(* The output directory and the variants of run_crew *)

\* number of variants of a batch
N == 3

OUTPUT_DIR == "static/outputs"

\* the entries of the list "variants" of run_crew
variants_CopyPaste(i) ==
    [id |-> i,
     name |-> "Variant " \o ToString(i),
     json_file |-> "mermaid_code_variant" \o ToString(i) \o ".json",
     svg_file |-> "flowchart_output_variant" \o ToString(IF i = 2 THEN 1 ELSE i) \o ".svg",
     png_file |-> "flowchart_output_variant" \o ToString(i) \o ".png"]

variants(i) ==
    [id |-> i,
     name |-> "Variant " \o ToString(i),
     json_file |-> "mermaid_code_variant" \o ToString(i) \o ".json",
     svg_file |-> "flowchart_output_variant" \o ToString(i) \o ".svg",
     png_file |-> "flowchart_output_variant" \o ToString(i) \o ".png"]

\* os.path.join(OUTPUT_DIR, name)
PathOf(name) == OUTPUT_DIR \o "/" \o name

FileNames ==
    UNION {{variants(i).json_file, variants(i).svg_file, variants(i).png_file} : i \in 1..N}

\* a key a Variant Outcome dict does not have
Absent == "<absent>"

\* the dicts appended to result_json['variants']
Outcome(id, name, svg_path, png_path, error) ==
    [id |-> id, name |-> name, svg_path |-> svg_path, png_path |-> png_path, error |-> error]

ErrorOutcome(i, error) == Outcome(i, variants(i).name, Absent, Absent, error)

\* flowchart_result_variant{i}.json: absent, the text the render task of the
\* crew left there, or the variant_result dumped by run_crew
NoResultFile == [kind |-> "missing", value |-> ErrorOutcome(0, Absent)]
TaskOutputFile == [kind |-> "task_output", value |-> ErrorOutcome(0, Absent)]
ResultFileOf(o) == [kind |-> "variant_result", value |-> o]

----------------------------------------------------------------------------
(* The external collaborators: the crew and the rendering service *)

P_good == <<"{", "\"", "m", "e", "r", "m", "a", "i", "d", "_", "c", "o", "d", "e", "\"", ":", "\"", "g", "r", "a", "p", "h", " ", "T", "D", ";", " ", "A", "[", "S", "]", " ", "-", "-", ">", " ", "B", "[", "E", "]", "\"", "}">>
P_badcode == <<"{", "\"", "m", "e", "r", "m", "a", "i", "d", "_", "c", "o", "d", "e", "\"", ":", "\"", "h", "e", "l", "l", "o", "\"", "}">>
P_prose == <<"S", "u", "r", "e", "!", " ", "H", "e", "r", "e", " ", "i", "s", " ", "t", "h", "e", " ", "c", "h", "a", "r", "t">>
P_fenced == <<"H", "e", "r", "e", ":", "\n">> \o S_fence_open \o P_good \o S_fence_close

\* texts the generation task may leave in the variant's json file
GenerationOutputs == {P_good, P_fenced, P_badcode, P_prose}

\* what crew.kickoff() can do: raise or return, having written the json
\* file of the generation task and the result file of the render task or not
KickoffResults ==
    {[raises |-> TRUE, json_written |-> FALSE, json_text |-> <<>>, result_written |-> FALSE],
     [raises |-> FALSE, json_written |-> FALSE, json_text |-> <<>>, result_written |-> TRUE]}
    \cup {[raises |-> FALSE, json_written |-> TRUE, json_text |-> t, result_written |-> TRUE] :
             t \in GenerationOutputs}

S_svg == <<"<", "s", "v", "g">>
S_xml == <<"<", "?", "x", "m", "l">>
SvgDocument == <<"<", "s", "v", "g", ">", "<", "/", "s", "v", "g", ">">>

\* b'\x89PNG\r\n\x1a\n'
PngSignature == <<"<x89>", "P", "N", "G", "<CR>", "\n", "<x1a>", "\n">>
PngImage == PngSignature \o <<"I", "H", "D", "R">>

ErrorBody == <<"E", "r", "r", "o", "r", " ", "4", "0", "0", ":", " ", "S", "y", "n", "t", "a", "x", " ", "e", "r", "r", "o", "r">>

Rendered(format) == IF format = "png" THEN PngImage ELSE SvgDocument

\* what may come back for POST /mermaid/<format>: no connection, or an
\* HTTP status with a body
ServiceReplies(format) ==
    {[connected |-> TRUE, status |-> 200, body |-> Rendered(format)],
     [connected |-> TRUE, status |-> 200, body |-> <<>>],
     [connected |-> TRUE, status |-> 400, body |-> ErrorBody],
     [connected |-> FALSE, status |-> 0, body |-> <<>>]}

\* the process "curl <url> --data-raw <code>" as run_crew starts it: without
\* --fail curl exits 0 on every HTTP status and prints the body; it exits
\* non-zero only when no reply was received
curl(reply) ==
    [returncode |-> IF reply.connected THEN 0 ELSE 7,
     stdout |-> reply.body,
     stderr |-> IF reply.connected THEN "" ELSE "curl: (7) Failed to connect"]

----------------------------------------------------------------------------
(* run_crew, one step per stage of the variant pipeline *)

S_mermaid_code == <<"m", "e", "r", "m", "a", "i", "d", "_", "c", "o", "d", "e">>

Request(method, description) == [method |-> method, description |-> description]
NoRequest == Request("<none>", None)
NoPage == [result_shown |-> FALSE, variants |-> <<>>, error |-> None, joined |-> <<>>]
\* a response of download, with the request it answers
NoResponse == [file_type |-> "", variant_id |-> "", status |-> 0, error |-> None, served |-> None]
NoVariantResult == ErrorOutcome(0, Absent)

\* an entry of the history: the stage, whether it ended the variant with an
\* error, the HTTP status a render call was answered with (0: none), and
\* whether the call raised
Event(stage, failed, status, raised) ==
    [stage |-> stage, failed |-> failed, status |-> status, raised |-> raised]

Logged(e) == log' = [log EXCEPT ![variant] = Append(@, e)]

\* as AppendAndContinue, but an outcome with an error ends the loop
AppendAndContinue_AbortOnError(o) ==
    /\ result_json' = Append(result_json, o)
    /\ mermaid_code' = PyNone
    /\ variant_result' = NoVariantResult
    /\ IF variant < N /\ o.error = Absent
       THEN variant' = variant + 1 /\ pc' = "generation"
       ELSE variant' = variant /\ pc' = "classify"

\* result_json['variants'].append(o), then the next iteration of the loop
\* (the locals of the finished iteration are dead) or the return
AppendAndContinue(o) ==
    /\ result_json' = Append(result_json, o)
    /\ mermaid_code' = PyNone
    /\ variant_result' = NoVariantResult
    /\ IF variant < N
       THEN variant' = variant + 1 /\ pc' = "generation"
       ELSE variant' = variant /\ pc' = "classify"

\* the handler "except Exception as e" around the whole iteration
CrewExecutionError(i, e) ==
    ErrorOutcome(i, "Error during crew execution for variant " \o ToString(i) \o ": " \o e)

\* crew.kickoff() and the check that the json file exists
Generate ==
    /\ pc = "generation"
    /\ \E k \in KickoffResults :
        LET v == variants(variant)
            written == IF k.json_written
                       THEN [files EXCEPT ![v.json_file] = FileOf(k.json_text)]
                       ELSE files
        IN /\ files' = written
           /\ result_files' = IF k.result_written
                              THEN [result_files EXCEPT ![variant] = TaskOutputFile]
                              ELSE result_files
           /\ IF k.raises
              THEN /\ Logged(Event("generation", TRUE, 0, TRUE))
                   /\ AppendAndContinue(CrewExecutionError(variant, "kickoff failed"))
              ELSE IF ~written[v.json_file].exists
              THEN /\ Logged(Event("generation", TRUE, 0, FALSE))
                   /\ AppendAndContinue(
                          ErrorOutcome(variant, "JSON file missing: " \o PathOf(v.json_file)))
              ELSE /\ Logged(Event("generation", FALSE, 0, FALSE))
                   /\ pc' = "cleaning"
                   /\ UNCHANGED <<variant, result_json, mermaid_code, variant_result>>
    /\ UNCHANGED <<page, resp, vcode, vret,
                   req, cfile, ccalls>>

\* json_error = clean_json_file(json_file)
Clean ==
    /\ pc = "cleaning"
    /\ LET v == variants(variant)
           c == clean_json_file(PathOf(v.json_file), files[v.json_file])
       IN /\ files' = [files EXCEPT ![v.json_file] = c.file]
          /\ IF c.ret # None
             THEN /\ Logged(Event("cleaning", TRUE, 0, FALSE))
                  /\ AppendAndContinue(
                         ErrorOutcome(variant, "Failed to clean JSON file: " \o c.ret))
             ELSE /\ Logged(Event("cleaning", FALSE, 0, FALSE))
                  /\ pc' = "parsing"
                  /\ UNCHANGED <<variant, result_json, mermaid_code, variant_result>>
    /\ UNCHANGED <<result_files, page, resp, vcode, vret,
                   req, cfile, ccalls>>

\* json.load(f) and mermaid_data.get('mermaid_code', ''); reading the file
\* may raise
Parse ==
    /\ pc = "parsing"
    /\ \E readable \in BOOLEAN :
        LET v == variants(variant)
            mermaid_data == json_loads(files[v.json_file].data)
        IN IF ~readable \/ ~mermaid_data.ok
           THEN /\ Logged(Event("parsing", TRUE, 0, TRUE))
                /\ AppendAndContinue(
                       ErrorOutcome(variant, "Failed to read Mermaid code: " \o
                                    (IF readable THEN "JSONDecodeError" ELSE "OSError")))
           ELSE /\ Logged(Event("parsing", FALSE, 0, FALSE))
                /\ mermaid_code' = PyStr(DictGet(mermaid_data.pairs, S_mermaid_code, <<>>))
                /\ pc' = "validation"
                /\ UNCHANGED <<variant, result_json, variant_result>>
    /\ UNCHANGED <<files, result_files, page, resp, vcode, vret,
                   req, cfile, ccalls>>

\* as Validate, but the branch of the invalid code lacks its "continue"
Validate_NoContinue ==
    /\ pc = "validation"
    /\ IF ~validate_mermaid_code(mermaid_code)
       THEN /\ Logged(Event("validation", TRUE, 0, FALSE))
            /\ result_json' = Append(result_json,
                   ErrorOutcome(variant, "Invalid or empty Mermaid code generated"))
            /\ variant_result' = Outcome(variant, variants(variant).name, Absent, Absent, Absent)
            /\ pc' = "svg_render"
            /\ UNCHANGED <<variant, mermaid_code>>
       ELSE /\ Logged(Event("validation", FALSE, 0, FALSE))
            /\ variant_result' = Outcome(variant, variants(variant).name, Absent, Absent, Absent)
            /\ pc' = "svg_render"
            /\ UNCHANGED <<variant, result_json, mermaid_code>>
    /\ UNCHANGED <<files, result_files, page, resp, vcode, vret,
                   req, cfile, ccalls>>

\* if not validate_mermaid_code(mermaid_code): ... continue
Validate ==
    /\ pc = "validation"
    /\ IF ~validate_mermaid_code(mermaid_code)
       THEN /\ Logged(Event("validation", TRUE, 0, FALSE))
            /\ AppendAndContinue(ErrorOutcome(variant, "Invalid or empty Mermaid code generated"))
       ELSE /\ Logged(Event("validation", FALSE, 0, FALSE))
            /\ variant_result' = Outcome(variant, variants(variant).name, Absent, Absent, Absent)
            /\ pc' = "svg_render"
            /\ UNCHANGED <<variant, result_json, mermaid_code>>
    /\ UNCHANGED <<files, result_files, page, resp, vcode, vret,
                   req, cfile, ccalls>>

\* the handler "except subprocess.CalledProcessError as e"
RenderError(i, stderr) ==
    "Failed to render images for variant " \o ToString(i) \o ": " \o stderr

\* one render call: open(path, 'w'/'wb') truncates the file, subprocess.run
\* with check=True raises CalledProcessError on a non-zero exit, otherwise
\* stdout is written and the path recorded
Render(format, stage, next_pc, reply) ==
        LET v == variants(variant)
            name == IF format = "svg" THEN v.svg_file ELSE v.png_file
            result == curl(reply)
        IN IF result.returncode # 0
           THEN /\ files' = [files EXCEPT ![name] = FileOf(<<>>)]
                /\ Logged(Event(stage, TRUE, reply.status, TRUE))
                /\ AppendAndContinue(
                       [variant_result EXCEPT !.error = RenderError(variant, result.stderr)])
           ELSE /\ files' = [files EXCEPT ![name] = FileOf(result.stdout)]
                /\ Logged(Event(stage, FALSE, reply.status, FALSE))
                /\ variant_result' =
                       IF format = "svg"
                       THEN [variant_result EXCEPT !.svg_path = PathOf(name)]
                       ELSE [variant_result EXCEPT !.png_path = PathOf(name)]
                /\ pc' = next_pc
                /\ UNCHANGED <<variant, result_json, mermaid_code>>

\* Render SVG
RenderSvg ==
    /\ pc = "svg_render"
    /\ \E reply \in ServiceReplies("svg") : Render("svg", "svg_render", "png_render", reply)
    /\ UNCHANGED <<result_files, page, resp, vcode, vret,
                   req, cfile, ccalls>>

\* Render PNG
RenderPng ==
    /\ pc = "png_render"
    /\ \E reply \in ServiceReplies("png") : Render("png", "png_render", "persistence", reply)
    /\ UNCHANGED <<result_files, page, resp, vcode, vret,
                   req, cfile, ccalls>>

\* os.path.exists(p) and os.path.getsize(p) != 0
ExistsNonEmpty_ExistsOnly(f) == f.exists
ExistsNonEmpty(f) == f.exists /\ Len(f.data) # 0

\* the check of the two files, json.dump(variant_result) and the append
Persist ==
    /\ pc = "persistence"
    /\ LET v == variants(variant)
           checked ==
               IF ~ExistsNonEmpty(files[v.svg_file])
               THEN [variant_result EXCEPT !.error = "SVG file was not created or is empty"]
               ELSE IF ~ExistsNonEmpty(files[v.png_file])
               THEN [variant_result EXCEPT !.error = "PNG file was not created or is empty"]
               ELSE variant_result
       IN /\ result_files' = [result_files EXCEPT ![variant] = ResultFileOf(checked)]
          /\ Logged(Event("persistence", checked.error # Absent, 0, FALSE))
          /\ AppendAndContinue(checked)
    /\ UNCHANGED <<files, page, resp, vcode, vret,
                   req, cfile, ccalls>>

----------------------------------------------------------------------------
(* index: the request handler around run_crew *)

\* request.form.get('description')
Descriptions == {None, "", "user logs in, then sees the dashboard"}

RECURSIVE Join(_, _)
\* sep.join(parts)
Join(sep, parts) ==
    IF parts = <<>> THEN ""
    ELSE IF Len(parts) = 1 THEN parts[1]
    ELSE parts[1] \o sep \o Join(sep, Tail(parts))

\* [v['error'] for v in vs if v.get('error')]
TruthyErrors(vs) ==
    SelectSeq([n \in 1..Len(vs) |-> vs[n].error], LAMBDA e : e # Absent /\ e # "")

\* as index_page, but the test for some errors comes before the test for all
index_page_AnyBeforeAll(vs) ==
    IF vs = <<>>
    THEN [result_shown |-> TRUE, variants |-> vs, joined |-> <<>>,
          error |-> "No flowchart variants were generated. Check server logs for details."]
    ELSE IF \E n \in 1..Len(vs) : vs[n].error # Absent
    THEN [result_shown |-> TRUE, variants |-> vs, joined |-> <<>>,
          error |-> "Some variants failed to generate. Check the details below."]
    ELSE IF \A n \in 1..Len(vs) : vs[n].error # Absent
    THEN [result_shown |-> FALSE, variants |-> <<>>, joined |-> TruthyErrors(vs),
          error |-> "Errors occurred in all variants: " \o Join("; ", TruthyErrors(vs))]
    ELSE [result_shown |-> TRUE, variants |-> vs, joined |-> <<>>, error |-> None]

\* the result and error that index hands to render_template after run_crew
\* returned vs
index_page(vs) ==
    IF vs = <<>>
    THEN [result_shown |-> TRUE, variants |-> vs, joined |-> <<>>,
          error |-> "No flowchart variants were generated. Check server logs for details."]
    ELSE IF \A n \in 1..Len(vs) : vs[n].error # Absent
    THEN [result_shown |-> FALSE, variants |-> <<>>, joined |-> TruthyErrors(vs),
          error |-> "Errors occurred in all variants: " \o Join("; ", TruthyErrors(vs))]
    ELSE IF \E n \in 1..Len(vs) : vs[n].error # Absent
    THEN [result_shown |-> TRUE, variants |-> vs, joined |-> <<>>,
          error |-> "Some variants failed to generate. Check the details below."]
    ELSE [result_shown |-> TRUE, variants |-> vs, joined |-> <<>>, error |-> None]

NoLog == [i \in 1..N |-> <<>>]

\* a request to "/": a GET renders the empty page, a POST without a
\* description renders the validation message, any other POST enters run_crew
Index_NoneOnly ==
    /\ pc = "idle"
    /\ \E method \in {"GET", "POST"}, description \in Descriptions :
        /\ req' = Request(method, IF method = "GET" THEN None ELSE description)
        /\ IF method = "GET"
           THEN /\ page' = NoPage
                /\ pc' = "done"
                /\ UNCHANGED <<variant, result_json, log>>
           ELSE IF description = None
           THEN /\ page' = [NoPage EXCEPT !.error = "Please provide a flowchart description."]
                /\ pc' = "done"
                /\ UNCHANGED <<variant, result_json, log>>
           ELSE /\ page' = NoPage
                /\ result_json' = <<>>
                /\ log' = NoLog
                /\ variant' = 1
                /\ pc' = "generation"
    /\ resp' = NoResponse
    /\ UNCHANGED <<files, result_files, mermaid_code, variant_result, vcode, vret,
                   cfile, ccalls>>

Index ==
    /\ pc = "idle"
    /\ \E method \in {"GET", "POST"}, description \in Descriptions :
        /\ req' = Request(method, IF method = "GET" THEN None ELSE description)
        /\ IF method = "GET"
           THEN /\ page' = NoPage
                /\ pc' = "done"
                /\ UNCHANGED <<variant, result_json, log>>
           ELSE IF description \in {None, ""}
           THEN /\ page' = [NoPage EXCEPT !.error = "Please provide a flowchart description."]
                /\ pc' = "done"
                /\ UNCHANGED <<variant, result_json, log>>
           ELSE /\ page' = NoPage
                /\ result_json' = <<>>
                /\ log' = NoLog
                /\ variant' = 1
                /\ pc' = "generation"
    /\ resp' = NoResponse
    /\ UNCHANGED <<files, result_files, mermaid_code, variant_result, vcode, vret,
                   cfile, ccalls>>

\* run_crew has returned: the classification of the batch
Classify ==
    /\ pc = "classify"
    /\ page' = index_page(result_json)
    /\ pc' = "done"
    /\ UNCHANGED <<variant, files, result_files, result_json, mermaid_code,
                   variant_result, log, resp, vcode, vret,
                   req, cfile, ccalls>>

----------------------------------------------------------------------------
(* download *)

\* <variant_id> and <file_type> of the requests explored
VariantIds == {"1", "4"}
FileTypes == {"svg", "png", "pdf"}

\* variant_files[variant_id][file_type]
variant_files(variant_id, file_type) ==
    "flowchart_output_variant" \o variant_id \o "." \o file_type

Upper(file_type) == IF file_type = "svg" THEN "SVG" ELSE IF file_type = "png" THEN "PNG" ELSE "PDF"

Reject(file_type, variant_id, status, error) ==
    [file_type |-> file_type, variant_id |-> variant_id,
     status |-> status, error |-> error, served |-> None]

\* as download, but a zero-byte file is answered like a missing one
download_EmptyAsMissing(file_type, variant_id, fs) ==
    IF variant_id \notin {"1", "2", "3"} \/ file_type \notin {"svg", "png"}
    THEN Reject(file_type, variant_id, 400, "Invalid file type or variant ID")
    ELSE LET name == variant_files(variant_id, file_type)
             f == fs[name]
             header == Slice(f.data, 1, IF Len(f.data) < 50 THEN Len(f.data) ELSE 50)
         IN IF ~f.exists \/ Len(f.data) = 0
            THEN Reject(file_type, variant_id, 404,
                        Upper(file_type) \o " file not found for variant " \o variant_id)
            ELSE IF file_type = "png" /\ Slice(header, 1, 8) # PngSignature
            THEN Reject(file_type, variant_id, 404, "Invalid PNG file for variant " \o variant_id)
            ELSE IF file_type = "svg"
                    /\ ~(Contains(lower(header), S_xml) \/ Contains(lower(header), S_svg))
            THEN Reject(file_type, variant_id, 404, "Invalid SVG file for variant " \o variant_id)
            ELSE [file_type |-> file_type, variant_id |-> variant_id,
                  status |-> 200, error |-> None, served |-> name]

\* the response of download(file_type, variant_id) on the directory fs
\* (reading the header and send_file are taken not to raise)
download(file_type, variant_id, fs) ==
    IF variant_id \notin {"1", "2", "3"} \/ file_type \notin {"svg", "png"}
    THEN Reject(file_type, variant_id, 400, "Invalid file type or variant ID")
    ELSE LET name == variant_files(variant_id, file_type)
             f == fs[name]
             header == Slice(f.data, 1, IF Len(f.data) < 50 THEN Len(f.data) ELSE 50)
         IN IF ~f.exists
            THEN Reject(file_type, variant_id, 404, Upper(file_type) \o " file not found for variant " \o variant_id)
            ELSE IF Len(f.data) = 0
            THEN Reject(file_type, variant_id, 404, Upper(file_type) \o " file is empty for variant " \o variant_id)
            ELSE IF file_type = "png" /\ Slice(header, 1, 8) # PngSignature
            THEN Reject(file_type, variant_id, 404, "Invalid PNG file for variant " \o variant_id)
            ELSE IF file_type = "svg"
                    /\ ~(Contains(lower(header), S_xml) \/ Contains(lower(header), S_svg))
            THEN Reject(file_type, variant_id, 404, "Invalid SVG file for variant " \o variant_id)
            ELSE [file_type |-> file_type, variant_id |-> variant_id,
                  status |-> 200, error |-> None, served |-> name]

\* a request to /download/<file_type>/<variant_id>, served between batches
Download ==
    /\ pc \in {"idle", "done"}
    /\ \E file_type \in FileTypes, variant_id \in VariantIds :
        resp' = download(file_type, variant_id, files)
    /\ UNCHANGED <<pc, variant, files, result_files, result_json, mermaid_code,
                   variant_result, log, page, vcode, vret,
                   req, cfile, ccalls>>

----------------------------------------------------------------------------
(* The server: one request to "/" on a directory that is new or holds the
   files of an earlier batch, and downloads before and after it *)

FreshFiles == [name \in FileNames |-> NoFile]
FreshResultFiles == [i \in 1..N |-> NoResultFile]

SuccessOutcome(i) ==
    Outcome(i, variants(i).name, PathOf(variants(i).svg_file),
            PathOf(variants(i).png_file), Absent)

\* the directory after a batch in which every variant was rendered
EarlierFiles ==
    [name \in FileNames |->
        IF \E i \in 1..N : name = variants(i).json_file THEN FileOf(P_good)
        ELSE IF \E i \in 1..N : name = variants(i).svg_file THEN FileOf(SvgDocument)
        ELSE FileOf(PngImage)]
EarlierResultFiles == [i \in 1..N |-> ResultFileOf(SuccessOutcome(i))]

Init ==
    /\ pc = "idle"
    /\ variant = 0
    /\ \/ files = FreshFiles /\ result_files = FreshResultFiles
       \/ files = EarlierFiles /\ result_files = EarlierResultFiles
    /\ result_json = <<>>
    /\ mermaid_code = PyNone
    /\ variant_result = NoVariantResult
    /\ log = NoLog
    /\ page = NoPage
    /\ resp = NoResponse
    /\ vcode = PyNone
    /\ vret = "pending"
    /\ req = NoRequest
    /\ cfile = NoFile
    /\ ccalls = <<>>

Next ==
    \/ Index
    \/ Generate
    \/ Clean
    \/ Parse
    \/ Validate
    \/ RenderSvg
    \/ RenderPng
    \/ Persist
    \/ Classify
    \/ Download

Spec == Init /\ [][Next]_vars

----------------------------------------------------------------------------
(* Inputs of the validate specification *)

Ex_GraphNodes == <<"g", "r", "a", "p", "h", " ", "T", "D", ";", " ", "A", "[", "S", "t", "a", "r", "t", "]", " ", "-", "-", ">", " ", "B", "[", "E", "n", "d", "]">>
Ex_GraphOnly == <<"g", "r", "a", "p", "h", " ", "T", "D">>
Ex_FlowchartPlain == <<"f", "l", "o", "w", "c", "h", "a", "r", "t", " ", "L", "R", "\n", " ", "A", " ", "-", "-", ">", " ", "B">>

ValidateTokens ==
    { <<"g", "r", "a", "p", "h">>,
      <<"G", "r", "a", "p", "h", " ", "T", "D">>,
      <<"f", "l", "o", "w", "c", "h", "a", "r", "t", " ", "L", "R">>,
      <<";", " ", "A", "[", "S", "]">>,
      <<"\n", "B">>,
      <<" ", "-", "-", ">", " ", "C">>,
      <<" ", "-", "-", "-", " ", "D">>,
      <<"[", "\n", "]">>,
      <<"\n", "s", "u", "b", "g", "r", "a", "p", "h", " ", "E">> }

RECURSIVE TokenTexts(_)
TokenTexts(n) ==
    IF n = 0 THEN {<<>>}
    ELSE TokenTexts(n - 1) \cup {s \o t : s \in TokenTexts(n - 1), t \in ValidateTokens}

ValidateInputs ==
    {PyStr(s) : s \in TokenTexts(MaxTokens) \cup {Ex_GraphNodes, Ex_GraphOnly, Ex_FlowchartPlain}}
    \cup {PyNone, PyInt(<<"0">>), PyInt(<<"5">>), PyList(<<>>), PyList(S_graph)}

----------------------------------------------------------------------------
(* The validate specification: one call of validate_mermaid_code *)

InitValidate ==
    /\ pc = "call_validate"
    /\ vcode \in ValidateInputs
    /\ vret = "pending"
    /\ variant = 0
    /\ files = FreshFiles
    /\ result_files = FreshResultFiles
    /\ result_json = <<>>
    /\ mermaid_code = PyNone
    /\ variant_result = NoVariantResult
    /\ log = NoLog
    /\ page = NoPage
    /\ resp = NoResponse
    /\ req = NoRequest
    /\ cfile = NoFile
    /\ ccalls = <<>>

CallValidate ==
    /\ pc = "call_validate"
    /\ vret' = IF validate_mermaid_code(vcode) THEN "True" ELSE "False"
    /\ pc' = "validate_returned"
    /\ UNCHANGED <<vcode, pipeline_vars, cfile, ccalls>>

NextValidate == CallValidate

SpecValidate == InitValidate /\ [][NextValidate]_vars

----------------------------------------------------------------------------
(* The classification specification: index classifying a batch result *)

\* longest batch result handed to the classification
MaxOutcomes == 3

\* the shapes of outcome run_crew appends, for variant i
OutcomeShapes(i) ==
    {SuccessOutcome(i),
     ErrorOutcome(i, "Invalid or empty Mermaid code generated"),
     CrewExecutionError(i, "kickoff failed"),
     [SuccessOutcome(i) EXCEPT !.png_path = Absent, !.error = RenderError(i, "curl: (7) Failed to connect")],
     [SuccessOutcome(i) EXCEPT !.error = "SVG file was not created or is empty"]}

RECURSIVE BatchResults(_)
\* the batch results of at most n outcomes, in variant order
BatchResults(n) ==
    IF n = 0 THEN {<<>>}
    ELSE BatchResults(n - 1) \cup
         {Append(vs, o) : vs \in {r \in BatchResults(n - 1) : Len(r) = n - 1},
                          o \in OutcomeShapes(n)}

InitClassify ==
    /\ pc = "classify"
    /\ result_json \in BatchResults(MaxOutcomes)
    /\ variant = N
    /\ files = FreshFiles
    /\ result_files = FreshResultFiles
    /\ mermaid_code = PyNone
    /\ variant_result = NoVariantResult
    /\ log = NoLog
    /\ page = NoPage
    /\ resp = NoResponse
    /\ vcode = PyNone
    /\ vret = "pending"
    /\ req = NoRequest
    /\ cfile = NoFile
    /\ ccalls = <<>>

NextClassify == Classify

SpecClassify == InitClassify /\ [][NextClassify]_vars

----------------------------------------------------------------------------
(* The clean specification: clean_json_file called on one file, repeatedly *)

J_object == <<"{", "\"", "a", "\"", ":", "\"", "b", "\"", "}">>
J_invalid == <<"{", "\"", "a", "\"", ":", "}">>
S_lead == <<"O", "k", ":">>
S_blank == <<" ", "\n">>

\* pieces of what a generation task may leave in its json file
CleanTokens ==
    { J_object, J_invalid, S_fence_open, S_fence_close, S_lead, S_blank,
      <<"{">>, <<"}">> }

RECURSIVE CleanTexts(_)
CleanTexts(n) ==
    IF n = 0 THEN {<<>>}
    ELSE CleanTexts(n - 1) \cup {s \o t : s \in CleanTexts(n - 1), t \in CleanTokens}

CleanInputs == {NoFile} \cup {FileOf(t) : t \in CleanTexts(MaxCleanTokens)}

CleanPath == PathOf(variants(1).json_file)

Call(before, ret, after) == [before |-> before, ret |-> ret, after |-> after]

InitClean ==
    /\ pc = "call_clean"
    /\ cfile \in CleanInputs
    /\ ccalls = <<>>
    /\ variant = 0
    /\ files = FreshFiles
    /\ result_files = FreshResultFiles
    /\ result_json = <<>>
    /\ mermaid_code = PyNone
    /\ variant_result = NoVariantResult
    /\ log = NoLog
    /\ page = NoPage
    /\ resp = NoResponse
    /\ req = NoRequest
    /\ vcode = PyNone
    /\ vret = "pending"

CallClean ==
    /\ pc = "call_clean"
    /\ Len(ccalls) < MaxCleanCalls
    /\ LET c == clean_json_file(CleanPath, cfile) IN
        /\ cfile' = c.file
        /\ ccalls' = Append(ccalls, Call(cfile, c.ret, c.file))
    /\ UNCHANGED <<pc, vcode, vret, pipeline_vars>>

NextClean == CallClean

SpecClean == InitClean /\ [][NextClean]_vars

----------------------------------------------------------------------------
(* What the specification's Diagram Validator contract speaks of *)

S_flowchart == <<"f", "l", "o", "w", "c", "h", "a", "r", "t">>
S_subgraph == <<"s", "u", "b", "g", "r", "a", "p", "h">>
S_dashes == <<"-", "-", "-">>

DirectionKeywords == {<<"t", "d">>, <<"t", "b">>, <<"b", "t">>, <<"l", "r">>, <<"r", "l">>}

\* a graph/flowchart declaration keyword immediately followed (after blanks)
\* by a direction keyword, case-insensitively
HasDirectedDeclaration(s) ==
    LET l == lower(s) IN
    \E kw \in {S_graph, S_flowchart}, d \in DirectionKeywords :
        \E i \in 1..Len(l), j \in 1..Len(l) :
            /\ OccursAt(l, kw, i)
            /\ j > i + Len(kw)
            /\ \A m \in (i + Len(kw))..(j - 1) : l[m] \in Whitespace
            /\ OccursAt(l, d, j)

\* one of the two accepted connector spellings
HasConnector(s) == Contains(s, S_arrow) \/ Contains(s, S_dashes)

SignalBracketNode(s) ==
    \E j \in 2..Len(s), k \in 1..Len(s) :
        s[j] = "[" /\ s[j - 1] \in Alnum /\ k > j /\ s[k] = "]"

SignalSubgraph(s) == Contains(lower(s), S_subgraph)

SignalPlainNode(s) ==
    \E i \in 1..Len(s), j \in 1..Len(s) :
        /\ s[i] \in Alnum
        /\ j > i
        /\ \A m \in (i + 1)..(j - 1) : s[m] = " "
        /\ (OccursAt(s, S_arrow, j) \/ OccursAt(s, S_dashes, j))

HasNodeSignal(s) == SignalBracketNode(s) \/ SignalSubgraph(s) \/ SignalPlainNode(s)

----------------------------------------------------------------------------
(* Claims about validate_mermaid_code, checked under SpecValidate *)

\* C9: validate accepts every source that has a directed graph/flowchart
\* declaration, a connector and at least one of the three node signals;
\* it rejects "" and "graph TD".
C9_ValidateAcceptsAnySignal ==
    pc = "validate_returned" =>
        /\ (/\ vcode.kind = "str"
            /\ HasDirectedDeclaration(vcode.val)
            /\ HasConnector(vcode.val)
            /\ HasNodeSignal(vcode.val)) => vret = "True"
        /\ vcode = PyStr(Ex_GraphNodes) => vret = "True"
        /\ vcode = PyStr(Ex_FlowchartPlain) => vret = "True"
        /\ vcode = PyStr(<<>>) => vret = "False"
        /\ vcode = PyStr(Ex_GraphOnly) => vret = "False"

\* C10: validate returns false (and does not raise) for an empty or
\* non-string input, for a source without a direction keyword right after
\* the declaration keyword, and for a source without a connection token.
C10_ValidateRejects ==
    pc = "validate_returned" =>
        ((\/ ~Truthy(vcode)
          \/ vcode.kind # "str"
          \/ ~HasDirectedDeclaration(vcode.val)
          \/ ~HasConnector(vcode.val)) => vret = "False")

----------------------------------------------------------------------------
(* Vocabulary of the claims about run_crew, index and download *)

\* the stages of the Variant Pipeline in the order of the specification
StageOrder == <<"generation", "cleaning", "parsing", "validation",
                "svg_render", "png_render", "persistence">>

Last(l) == l[Len(l)]

\* run_crew was entered by this request and has returned
Returned == pc = "classify" \/ (pc = "done" /\ log[1] # <<>>)

\* the outcome of variant i has been appended
Appended(i) == i <= Len(result_json)

HasError(o) == o.error # Absent
HasBothPaths(o) == o.svg_path # Absent /\ o.png_path # Absent
HasNoPath(o) == o.svg_path = Absent /\ o.png_path = Absent

\* variant i ran every stage and none reported a failure
SucceededEndToEnd(i) == Len(log[i]) = Len(StageOrder) /\ ~Last(log[i]).failed

\* variant i stopped with a failure of the given stage
FailedAt(i, stage) ==
    log[i] # <<>> /\ Last(log[i]).stage = stage /\ Last(log[i]).failed

RenderStages == {"svg_render", "png_render"}

SomeFailedMessage == "Some variants failed to generate. Check the details below."
NoResultsMessage == "No flowchart variants were generated. Check server logs for details."

----------------------------------------------------------------------------
(* Claims checked under Spec *)

\* C1: every outcome appended to the batch result has either both paths and
\* no error, or an error and neither path.
C1_PathsXorError ==
    \A n \in 1..Len(result_json) :
        \/ HasBothPaths(result_json[n]) /\ ~HasError(result_json[n])
        \/ HasError(result_json[n]) /\ HasNoPath(result_json[n])

\* C2: a failing variant does not abort the batch: when run_crew has returned
\* every variant has run its pipeline and has its outcome; an outcome carries
\* an error exactly when a stage of that same variant failed and a path
\* exactly when that variant's render call of the format returned; garbage
\* from variant 2 between two rendered variants gives error, paths, error-free
\* paths and the "some failed" page.
C2_FailureIsolated ==
    /\ Returned =>
          /\ Len(result_json) = N
          /\ \A i \in 1..N : log[i] # <<>> /\ log[i][1].stage = "generation"
    /\ \A i \in 1..N : Appended(i) /\ log[i] # <<>> =>
          /\ result_json[i].id = i
          /\ HasError(result_json[i]) <=> Last(log[i]).failed
          /\ result_json[i].svg_path # Absent <=>
                \E k \in 1..Len(log[i]) : log[i][k].stage = "svg_render" /\ ~log[i][k].raised
          /\ result_json[i].png_path # Absent <=>
                \E k \in 1..Len(log[i]) : log[i][k].stage = "png_render" /\ ~log[i][k].raised
    /\ (Returned /\ SucceededEndToEnd(1) /\ FailedAt(2, "cleaning") /\ SucceededEndToEnd(3)) =>
          /\ HasError(result_json[2]) /\ HasNoPath(result_json[2])
          /\ HasBothPaths(result_json[1]) /\ ~HasError(result_json[1])
          /\ HasBothPaths(result_json[3]) /\ ~HasError(result_json[3])
          /\ pc = "done" => page.error = SomeFailedMessage /\ page.result_shown

C2_Witness ==
    /\ pc = "done"
    /\ SucceededEndToEnd(1) /\ FailedAt(2, "cleaning") /\ SucceededEndToEnd(3)
    /\ page.error = SomeFailedMessage

\* C3: while run_crew runs, the batch result holds exactly the outcomes of the
\* variants already finished, once each and in ascending id order; when it
\* has returned there are exactly N of them, ids 1..N.
C3_OneOutcomePerVariantInOrder ==
    /\ \A n \in 1..Len(result_json) : result_json[n].id = n
    /\ pc \in Range(StageOrder) => Len(result_json) = variant - 1
    /\ Returned => Len(result_json) = N

C3_Witness ==
    /\ pc = "done"
    /\ Len(result_json) = N
    /\ FailedAt(1, "generation") /\ FailedAt(2, "svg_render") /\ SucceededEndToEnd(3)
    /\ <<result_json[1].id, result_json[2].id, result_json[3].id>> = <<1, 2, 3>>

\* a stage failed: it ended the variant with an error, it raised, or it is a
\* render call that the service answered with a non-success status
StageFailed(e) ==
    \/ e.failed
    \/ e.raised
    \/ e.stage \in RenderStages /\ e.status \notin {0, 200}

\* C5: the stages of a variant run in the order generation, cleaning, parsing,
\* validation, SVG render, PNG render, persistence; a stage that fails is the
\* last one the variant runs; a failed SVG call is followed by no PNG call and
\* by one outcome, which carries an error.
C5_StagesInOrderStopAtFailure ==
    \A i \in 1..N :
        /\ Len(log[i]) <= Len(StageOrder)
        /\ \A k \in 1..Len(log[i]) :
              /\ log[i][k].stage = StageOrder[k]
              /\ StageFailed(log[i][k]) => k = Len(log[i])
        /\ (\E k \in 1..Len(log[i]) :
                log[i][k].stage = "svg_render" /\ StageFailed(log[i][k])) =>
              /\ \A k \in 1..Len(log[i]) : log[i][k].stage # "png_render"
              /\ Appended(i)
              /\ HasError(result_json[i])
              /\ Cardinality({n \in 1..Len(result_json) : result_json[n].id = i}) = 1

\* The same with a failure taken as the code detects it (the stage raised or
\* returned an error): this much holds of run_crew.
StagesInOrderStopAtDetectedFailure ==
    \A i \in 1..N :
        /\ Len(log[i]) <= Len(StageOrder)
        /\ \A k \in 1..Len(log[i]) :
              /\ log[i][k].stage = StageOrder[k]
              /\ (log[i][k].failed \/ log[i][k].raised) => k = Len(log[i])
        /\ FailedAt(i, "svg_render") =>
              /\ \A k \in 1..Len(log[i]) : log[i][k].stage # "png_render"
              /\ Appended(i)
              /\ HasError(result_json[i])
              /\ Cardinality({n \in 1..Len(result_json) : result_json[n].id = i}) = 1

\* C6: a render call answered with a non-success status ends the variant
\* there, and the variant's outcome carries an error instead of paths without
\* an error.
C6_NonSuccessStatusIsRenderError ==
    \A i \in 1..N : \A k \in 1..Len(log[i]) :
        (log[i][k].stage \in RenderStages /\ log[i][k].status \notin {0, 200}) =>
            /\ k = Len(log[i])
            /\ Appended(i)
            /\ HasError(result_json[i])

\* C7: once a variant is finished, whatever its outcome, the file
\* flowchart_result_variant{i}.json holds that outcome.
C7_ResultFileHoldsOutcome ==
    \A i \in 1..N : Appended(i) => result_files[i] = ResultFileOf(result_json[i])

\* the three rejections of download, for the request r
BadRequestError == "Invalid file type or variant ID"
NotFoundError(r) == Upper(r.file_type) \o " file not found for variant " \o r.variant_id
EmptyError(r) == Upper(r.file_type) \o " file is empty for variant " \o r.variant_id

KnownRequest(r) == r.variant_id \in {"1", "2", "3"} /\ r.file_type \in {"svg", "png"}
RequestedFile(r) == files[variant_files(r.variant_id, r.file_type)]

\* C8: download answers an unknown variant id or format with the bad-request
\* error, a missing file with the not-found error and a zero-byte file with
\* the empty error; the three are different errors and none serves a file.
C8_DownloadRejectionsDistinct ==
    resp.status # 0 =>
        /\ ~KnownRequest(resp) =>
              /\ resp.status = 400 /\ resp.error = BadRequestError /\ resp.served = None
        /\ (KnownRequest(resp) /\ ~RequestedFile(resp).exists) =>
              /\ resp.status = 404 /\ resp.error = NotFoundError(resp) /\ resp.served = None
              /\ resp.error \notin {BadRequestError, EmptyError(resp)}
        /\ (KnownRequest(resp) /\ RequestedFile(resp).exists
                /\ Len(RequestedFile(resp).data) = 0) =>
              /\ resp.error = EmptyError(resp) /\ resp.served = None
              /\ resp.status # 200
              /\ resp.error \notin {BadRequestError, NotFoundError(resp)}

C8_Witness ==
    /\ KnownRequest(resp)
    /\ RequestedFile(resp).exists /\ Len(RequestedFile(resp).data) = 0
    /\ resp.error = EmptyError(resp)
    /\ FailedAt(1, "svg_render")

----------------------------------------------------------------------------
(* Claim checked under SpecClassify *)

AllHaveErrors(vs) == \A n \in 1..Len(vs) : HasError(vs[n])
SomeHaveErrors(vs) == \E n \in 1..Len(vs) : HasError(vs[n])

\* C4: the page index renders is determined by the outcomes: none at all
\* gives the no-results message; all with errors gives the aggregate message,
\* built from every one of the error strings, and no result; some with errors
\* gives the some-failed message with the result; no error gives the result
\* and no message.
C4_ClassificationTotal ==
    pc = "done" =>
        /\ Len(result_json) = 0 => page.error = NoResultsMessage
        /\ (Len(result_json) > 0 /\ AllHaveErrors(result_json)) =>
              /\ ~page.result_shown
              /\ Len(page.joined) = Len(result_json)
              /\ \A n \in 1..Len(result_json) : page.joined[n] = result_json[n].error
              /\ page.error =
                    "Errors occurred in all variants: " \o Join("; ", page.joined)
              /\ page.error \notin {None, NoResultsMessage, SomeFailedMessage}
        /\ (SomeHaveErrors(result_json) /\ ~AllHaveErrors(result_json)) =>
              /\ page.error = SomeFailedMessage
              /\ page.result_shown /\ page.variants = result_json
        /\ (Len(result_json) > 0 /\ ~SomeHaveErrors(result_json)) =>
              /\ page.error = None
              /\ page.result_shown /\ page.variants = result_json

C4_Witness ==
    /\ pc = "done"
    /\ Len(result_json) = N
    /\ AllHaveErrors(result_json)
    /\ ~page.result_shown
    /\ Len(page.joined) = N

----------------------------------------------------------------------------
(* Claims checked under SpecClean *)

HasBracePair(s) ==
    \E i, j \in 1..Len(s) : i < j /\ s[i] = "{" /\ s[j] = "}"
FirstBrace(s) == CHOOSE i \in 1..Len(s) : s[i] = "{" /\ \A k \in 1..(i - 1) : s[k] # "{"
LastBrace(s) == CHOOSE j \in 1..Len(s) : s[j] = "}" /\ \A k \in (j + 1)..Len(s) : s[k] # "}"
BraceSpan(s) == Slice(s, FirstBrace(s), LastBrace(s))

\* the text holds one JSON object, whatever prose or fences are around it
WrapsOneObject(s) ==
    /\ HasBracePair(s)
    /\ FirstBrace(s) < LastBrace(s)
    /\ \A k \in 1..(FirstBrace(s) - 1) : s[k] # "}"
    /\ \A k \in (LastBrace(s) + 1)..Len(s) : s[k] # "{"
    /\ json_loads(BraceSpan(s)).ok

Succeeded(c) == c.ret = None

\* C11: when the file holds one JSON object wrapped in prose or fences,
\* cleaning succeeds and keeps exactly the text from the first opening brace
\* to the last closing brace.
C11_ExtractsBraceSpan ==
    \A k \in 1..Len(ccalls) :
        (ccalls[k].before.exists /\ WrapsOneObject(ccalls[k].before.data)) =>
            /\ Succeeded(ccalls[k])
            /\ ccalls[k].after = FileOf(BraceSpan(ccalls[k].before.data))

\* C12: cleaning is idempotent on its own successful output: a call that
\* follows a successful call succeeds too and leaves the file as it was.
C12_CleanIdempotent ==
    \A k \in 1..(Len(ccalls) - 1) :
        Succeeded(ccalls[k]) =>
            /\ Succeeded(ccalls[k + 1])
            /\ ccalls[k + 1].before = ccalls[k].after
            /\ ccalls[k + 1].after = ccalls[k].after

C12_Witness ==
    /\ Len(ccalls) >= 2
    /\ Succeeded(ccalls[1])
    /\ ccalls[1].after # ccalls[1].before
    /\ Succeeded(ccalls[2])
    /\ cfile = ccalls[1].after

\* C17: a call of clean_json_file that returns an error message leaves the
\* file as it was; the file is overwritten only by a call that returns None.
C17_ErrorLeavesFileUnchanged ==
    \A k \in 1..Len(ccalls) :
        /\ ~Succeeded(ccalls[k]) => ccalls[k].after = ccalls[k].before
        /\ ccalls[k].after # ccalls[k].before => Succeeded(ccalls[k])

C17_Witness ==
    \E k \in 1..Len(ccalls) :
        /\ ~Succeeded(ccalls[k])
        /\ ccalls[k].before.exists
        /\ FenceOpens(strip(ccalls[k].before.data)) # {}
        /\ strip(FenceGroup(strip(ccalls[k].before.data))) = J_invalid
        /\ cfile = ccalls[k].before

----------------------------------------------------------------------------
(* Claims about the request handlers, checked under Spec *)

ValidationMessage == "Please provide a flowchart description."
EmptyDescription(r) == r.method = "POST" /\ r.description \in {None, ""}

\* C14: a request whose description is empty or missing is answered with the
\* validation message and the pipeline does not run for it: no stage of any
\* variant is started, no outcome is produced, and no file of the output
\* directory is created or modified.
C14_EmptyDescriptionRejected ==
    [][EmptyDescription(req') =>
          /\ page'.error = ValidationMessage
          /\ ~page'.result_shown
          /\ pc' = "done"
          /\ variant' = 0
          /\ log' = NoLog
          /\ result_json' = <<>>
          /\ files' = files
          /\ result_files' = result_files]_vars

C14_Witness ==
    /\ req = Request("POST", "")
    /\ pc = "done"
    /\ page.error = ValidationMessage
    /\ files = EarlierFiles
    /\ result_files = EarlierResultFiles
    /\ log = NoLog

PresentNonEmpty(name) == files[name].exists /\ Len(files[name].data) > 0

\* C15: every outcome appended to the batch result without an error names the
\* SVG and the PNG file of its variant, and both files exist and are
\* non-empty.
C15_SuccessHasArtifacts ==
    \A i \in 1..Len(result_json) :
        ~HasError(result_json[i]) =>
            /\ result_json[i].svg_path = PathOf(variants(i).svg_file)
            /\ result_json[i].png_path = PathOf(variants(i).png_file)
            /\ PresentNonEmpty(variants(i).svg_file)
            /\ PresentNonEmpty(variants(i).png_file)

C15_Witness ==
    /\ Appended(1)
    /\ ~HasError(result_json[1])
    /\ SucceededEndToEnd(1)
    /\ files[variants(1).svg_file] = FileOf(Rendered("svg"))
    /\ files[variants(1).png_file] = FileOf(Rendered("png"))
    /\ result_files[N] = NoResultFile

PreRenderStages == {"generation", "cleaning", "parsing", "validation"}

\* the files that belong to variant i, by their names in the output directory
ArtifactNames(i) ==
    { "flowchart_output_variant" \o ToString(i) \o ".svg",
      "flowchart_output_variant" \o ToString(i) \o ".png" }
StoredNames(i) ==
    ArtifactNames(i) \cup {"mermaid_code_variant" \o ToString(i) \o ".json"}

Kept(name) == name \in DOMAIN files => files'[name] = files[name]

\* C16: the stages before the render stage write no SVG and no PNG file, so
\* a variant that fails in one of them leaves its stored artifacts as they
\* were and download answers for it as it did before the batch; and no step
\* of a variant's run writes a file that belongs to another variant.
C16_StaleArtifactsKept ==
    [][/\ pc \in PreRenderStages =>
            \A i \in 1..N :
                /\ \A name \in ArtifactNames(i) : Kept(name)
                /\ \A file_type \in {"svg", "png"} :
                      variant_files(ToString(i), file_type) \in DOMAIN files =>
                          download(file_type, ToString(i), files')
                              = download(file_type, ToString(i), files)
       /\ pc \in Range(StageOrder) =>
            \A j \in (1..N) \ {variant} :
                /\ \A name \in StoredNames(j) : Kept(name)
                /\ result_files'[j] = result_files[j]]_vars

C16_Witness ==
    /\ pc = "done"
    /\ \E stage \in PreRenderStages : FailedAt(1, stage)
    /\ SucceededEndToEnd(2)
    /\ files[variants(1).svg_file] = EarlierFiles[variants(1).svg_file]
    /\ resp = download("svg", "1", EarlierFiles)
    /\ resp.status = 200
    /\ resp.served = variants(1).svg_file

\* the configured maximum file count of the Output Store; the output
\* directory left by an earlier batch holds this many files and five more
MaximumFileCount == 7

FileCount ==
    Cardinality({name \in DOMAIN files : files[name].exists})
        + Cardinality({i \in 1..N : result_files[i] # NoResultFile})

\* run_crew is past the point where a batch starts
BatchStarted == pc \in Range(StageOrder) \/ Returned

\* C13: capacity is enforced before the first variant of a batch: from then
\* on the output directory holds no more files than the configured maximum,
\* so a directory that held the maximum and five more has lost five files.
C13_CapacityEnforced ==
    BatchStarted => FileCount <= MaximumFileCount

====
